---- MODULE Spec2Model ----
(***************************************************************************)
(* Aquarium simulation: flocking fish, kelp chains, water height field and *)
(* the procedural fish mesh.                                               *)
(*                                                                         *)
(* Numbers are fixed point: one world unit is U = 1000 model units, one    *)
(* second is 1000 model time units, a mass of 1.0 is 1000.  Vectors are    *)
(* triples <<x, y, z>>.  Division rounds to the nearest integer.           *)
(***************************************************************************)
EXTENDS Integers, Sequences, FiniteSets, TLC

VARIABLES
  fishData,         \* the fish: position, velocity, acceleration, mass
  targets,          \* targets[i] is the seek target of fish i
  flocking,         \* TRUE: the loop with alignment and cohesion
  seaPlants,        \* the kelp chains: base, points, velocities
  pc,               \* where the animation callback is
  delta,            \* clock.getDelta() of the running tick
  phaseLog,         \* the simulators the running tick has advanced, in order
  ticks,            \* number of ticks started
  edits,            \* number of fishCount changes made in the GUI
  waterHeights, waterVelocities,   \* the water grid
  mesh,             \* createFishGeometry: its parameters and what it built
  sceneEnvironment, \* scene.environment
  sandVertexY,      \* the height of the vertices of the sand surface
  lastOp            \* the last operation and its inputs

flockVars == <<fishData, targets, flocking, seaPlants, pc, delta, phaseLog, ticks, edits>>
waterVars == <<waterHeights, waterVelocities>>
vars == <<fishData, targets, flocking, seaPlants, pc, delta, phaseLog, ticks, edits,
          waterHeights, waterVelocities, mesh, sceneEnvironment,
          sandVertexY, lastOp>>

(* ------------------------------ bounds --------------------------------- *)
MaxFish == 2
MaxTicks == 2
MaxEdits == 1
PlantCount == 1
MaxChainTicks == 5

(* ------------------------- fixed-point helpers ------------------------- *)
U == 10 * 100

Abs(a) == IF a < 0 THEN -a ELSE a

RDiv(a, b) == IF a >= 0 THEN (2 * a + b) \div (2 * b)
              ELSE -((2 * (-a) + b) \div (2 * b))

RECURSIVE SqrtIter(_, _, _)
SqrtIter(n, lo, hi) ==
  IF lo >= hi THEN lo
  ELSE LET mid == (lo + hi + 1) \div 2
       IN IF mid * mid <= n THEN SqrtIter(n, mid, hi)
          ELSE SqrtIter(n, lo, mid - 1)

ISqrt(n) == SqrtIter(n, 0, 46340)

Zero3 == <<0, 0, 0>>
VAdd(a, b) == <<a[1] + b[1], a[2] + b[2], a[3] + b[3]>>
VSub(a, b) == <<a[1] - b[1], a[2] - b[2], a[3] - b[3]>>
VNeg(a) == <<-a[1], -a[2], -a[3]>>
VScale(a, s) == <<RDiv(a[1] * s, U), RDiv(a[2] * s, U), RDiv(a[3] * s, U)>>
VDivScalar(a, s) == <<RDiv(a[1] * U, s), RDiv(a[2] * U, s), RDiv(a[3] * U, s)>>
VDivInt(a, n) == <<RDiv(a[1], n), RDiv(a[2], n), RDiv(a[3], n)>>
LenSq(a) == a[1] * a[1] + a[2] * a[2] + a[3] * a[3]
VLen(a) == ISqrt(LenSq(a))
Dot(a, b) == RDiv(a[1] * b[1] + a[2] * b[2] + a[3] * b[3], U)
Cross(a, b) == <<RDiv(a[2] * b[3] - a[3] * b[2], U),
                 RDiv(a[3] * b[1] - a[1] * b[3], U),
                 RDiv(a[1] * b[2] - a[2] * b[1], U)>>

\* Vector3.normalize: divideScalar(length() || 1), a zero vector stays zero
Normalize(a) == IF VLen(a) = 0 THEN a ELSE VDivScalar(a, VLen(a))

\* Vector3.lerp(b, t): a + (b - a) * t, t is not clamped
Lerp(a, b, t) == VAdd(a, VScale(VSub(b, a), t))

Clamp(x, lo, hi) == IF x < lo THEN lo ELSE IF x > hi THEN hi ELSE x

\* Vector3.applyAxisAngle with a unit axis k and an angle given by its
\* cosine c and sine s: v c + (k x v) s + k (k . v) (1 - c)
ApplyAxisAngle(v, k, c, s) ==
  VAdd(VAdd(VScale(v, c), VScale(Cross(k, v), s)),
       VScale(k, RDiv(Dot(k, v) * (U - c), U)))

(* --------------------------- program constants ------------------------- *)
aqWidth == 20000
aqHeight == 10000
aqDepth == 16000
margin == 2000
halfX == aqWidth \div 2 - margin
halfY == aqHeight \div 2 - margin
halfZ == aqDepth \div 2 - margin

fishSpeed == 2000
turnSpeed == 1500
separationDist == 1000
separationStrength == 2000
alignmentStrength == 1000
cohesionStrength == 1000
flockRadius == 3000
arriveDistSq == 250000

sandHeight == 800
sandY == -(aqHeight \div 2) + sandHeight \div 2

SEGMENTS == 12
PLANT_LEN == 2500
kelpSpring == 60
kelpDamping == 7200
jointLength == RDiv(PLANT_LEN, SEGMENTS - 1)
pushRadius == 550
pushSide == 90
pushUp == 40

(* ------------------------ environment input sets ----------------------- *)
\* mass = 1.0 + Math.random() * 0.2
Masses == {1000, 1150}

\* pickNewTarget: uniform in the motion bounds
Targets == {<<halfX, halfY, halfZ>>, <<1000, -2000, 0>>}

\* clock.getDelta() at the top of a tick (milliseconds)
Deltas == {0, 100, 5000}

\* clock.getDelta() inside the kelp loop: time since the previous call
ChainDts == {0, 17}

\* 1000 cos(pi / 8): the angle of the turn is drawn by
\* randFloatSpread(Math.PI / 8)
cosPi8 == 924

\* the random axis and angle of the turn on a bounce: <<axis, cos, sin>>
\* (angle in [-pi/16, pi/16], axis components in [0, 1))
Turns == {<<<<577, 577, 577>>, 981, 195>>,
          <<<<0, 1000, 0>>, 981, -195>>}

\* Math.sin(performance.now() * 0.0007 + ...) in the idle sway
Sines == {1000}

\* positions inside the motion bounds where a fish can be when a tick
\* starts: next to the upper kelp points, and far from the kelp
FishSpots == {<<900, -1600, 100>>, <<-4000, 2000, 3000>>}

\* kelp base anchors: randFloatSpread over the sand, on the sand surface
Bases == {<<1000, sandY + sandHeight \div 2, 0>>}

(* ------------------------------ environment ---------------------------- *)
\* the envMap uniform of a new fish material and scene.environment before
\* the HDR file is loaded; the texture the load callback builds
NullMap == "null"
HdrMap == "envMap"

(* --------------------------------- sand -------------------------------- *)
\* sample vertices of the top face of the sand box, as <<x, z>> in the
\* frame of the sand mesh (sand.position.x and .z are 0)
SandVertices == <<<<0, 0>>, <<250, 0>>, <<5000, -3000>>>>

\* sandOrigY: the heights the vertices have when the sand is built
sandOrigY == [i \in 1..Len(SandVertices) |-> sandHeight \div 2]

\* the defaults of deformSandAt and relaxSand, and the reach of the test
\* in the animation callback
deformDepth == 120
deformRadius == 500
relaxSpeed == 200
sandReach == 500

\* Math.abs(fish.mesh.position.y - sand.position.y) < 0.5
NearSand(pos) == Abs(pos[2] - sandY) < sandReach

\* deformSandAt(worldX, worldZ): the vertices closer than radius are set
\* to their original height less depth * (1 - dist / radius)
deformSandAt(s, worldX, worldZ) ==
  [i \in 1..Len(s) |->
     LET vx == SandVertices[i][1]
         vz == SandVertices[i][2]
         dist == ISqrt((vx - worldX) * (vx - worldX) + (vz - worldZ) * (vz - worldZ))
     IN IF dist < deformRadius
        THEN sandOrigY[i] - RDiv(deformDepth * (U - RDiv(dist * U, deformRadius)), U)
        ELSE s[i]]

\* fishData.forEach(fish => { if (near the sand) deformSandAt(...) })
RECURSIVE DeformFrom(_, _, _)
DeformFrom(s, fd, i) ==
  IF i > Len(fd) THEN s
  ELSE DeformFrom(IF NearSand(fd[i].pos)
                  THEN deformSandAt(s, fd[i].pos[1], fd[i].pos[3]) ELSE s,
                  fd, i + 1)

\* relaxSand(delta): every vertex moves back towards its original height
relaxSand(s, dt) ==
  [i \in 1..Len(s) |-> s[i] + RDiv(RDiv((sandOrigY[i] - s[i]) * relaxSpeed, U) * dt, 1000)]

(* ------------------------------ orientation ---------------------------- *)
\* the mesh quaternion <<x, y, z, w>>; a new mesh is not rotated
IdentityQuat == <<0, 0, 0, U>>

\* const forward = new THREE.Vector3(-1, 0, 0)
forward == <<-U, 0, 0>>

QuatDot(a, b) == RDiv(a[1] * b[1] + a[2] * b[2] + a[3] * b[3] + a[4] * b[4], U)

\* Quaternion.normalize: a zero quaternion becomes the identity
QuatNormalize(q) ==
  LET l == ISqrt(q[1] * q[1] + q[2] * q[2] + q[3] * q[3] + q[4] * q[4])
  IN IF l = 0 THEN IdentityQuat
     ELSE <<RDiv(q[1] * U, l), RDiv(q[2] * U, l), RDiv(q[3] * U, l), RDiv(q[4] * U, l)>>

\* Quaternion.setFromUnitVectors(vFrom, vTo)
setFromUnitVectors(vFrom, vTo) ==
  LET r == Dot(vFrom, vTo) + U
      c == Cross(vFrom, vTo)
  IN IF r <= 0
     THEN IF Abs(vFrom[1]) > Abs(vFrom[3])
          THEN QuatNormalize(<<-vFrom[2], vFrom[1], 0, 0>>)
          ELSE QuatNormalize(<<0, -vFrom[3], vFrom[2], 0>>)
     ELSE QuatNormalize(<<c[1], c[2], c[3], r>>)

\* Quaternion.slerp(qb, t), by its linear blend: the shorter arc is taken
\* and the result is renormalised
Slerp(qa, qb, t) ==
  LET cosHalfTheta == QuatDot(qa, qb)
      b == IF cosHalfTheta < 0 THEN <<-qb[1], -qb[2], -qb[3], -qb[4]>> ELSE qb
  IN IF Abs(cosHalfTheta) >= U THEN qa
     ELSE QuatNormalize(<<RDiv(qa[1] * (U - t) + b[1] * t, U),
                          RDiv(qa[2] * (U - t) + b[2] * t, U),
                          RDiv(qa[3] * (U - t) + b[3] * t, U),
                          RDiv(qa[4] * (U - t) + b[4] * t, U)>>)

slerpFactor == 100

\* the quaternion after the orientation step of a fish with velocity vel
Orient(q, vel) == Slerp(q, setFromUnitVectors(forward, Normalize(vel)), slerpFactor)

(* ------------------------------ population ----------------------------- *)
\* updateFishCount, the body of the second loop: a new fish sits at the
\* origin of the scene with velocity (1,0,0) * fishSpeed
NewFish(m) == [pos |-> Zero3, vel |-> VScale(<<U, 0, 0>>, fishSpeed),
               acc |-> Zero3, mass |-> m, quat |-> IdentityQuat,
      envMap |-> NullMap]

\* updateFishCount, first loop: while (fishData.length > count) pop both
RECURSIVE PopFish(_, _, _)
PopFish(fd, tg, count) ==
  IF Len(fd) > count
  THEN PopFish(SubSeq(fd, 1, Len(fd) - 1), SubSeq(tg, 1, Len(tg) - 1), count)
  ELSE [fd |-> fd, tg |-> tg]

\* updateFishCount, second loop: while (fishData.length < count) push a
\* fish and pickNewTarget(fishData.length - 1); ms and ts are the random
\* masses and targets drawn, indexed by the slot they go to
RECURSIVE PushFish(_, _, _, _, _)
PushFish(fd, tg, count, ms, ts) ==
  IF Len(fd) < count
  THEN LET slot == Len(fd) + 1
       IN PushFish(Append(fd, NewFish(ms[slot])),
                   [k \in 1..slot |-> IF k = slot THEN ts[slot] ELSE tg[k]],
                   count, ms, ts)
  ELSE [fd |-> fd, tg |-> tg]

\* updateFishCount removing the surplus fish from the front of the list
updateFishCount_PopFront(fd, tg, count, ms, ts) ==
  LET n == Len(fd)
      popped == IF n > count
                THEN [fd |-> SubSeq(fd, n - count + 1, n),
                      tg |-> SubSeq(tg, n - count + 1, n)]
                ELSE [fd |-> fd, tg |-> tg]
  IN PushFish(popped.fd, popped.tg, count, ms, ts)

\* updateFishCount popping the fish but not their targets
updateFishCount_KeepTargets(fd, tg, count, ms, ts) ==
  LET popped == PopFish(fd, tg, count)
  IN PushFish(popped.fd, tg, count, ms, ts)

updateFishCount(fd, tg, count, ms, ts) ==
  LET popped == PopFish(fd, tg, count)
  IN PushFish(popped.fd, popped.tg, count, ms, ts)

(* ------------------------------ force phase ---------------------------- *)
\* SepForce pushing coincident fish apart along +x
SepForce_Fallback(fd, i, j) ==
  IF i = j THEN Zero3
  ELSE LET offset == VSub(fd[i].pos, fd[j].pos)
           dist == VLen(offset)
       IN IF dist < separationDist
          THEN LET forceMag == RDiv(separationStrength * (separationDist - dist), U)
                   away == IF dist = 0 THEN <<U, 0, 0>> ELSE Normalize(offset)
               IN VDivScalar(VScale(away, forceMag), fd[i].mass)
          ELSE Zero3

\* SepForce with the offset taken from fish i to fish j
SepForce_Attract(fd, i, j) ==
  IF i = j THEN Zero3
  ELSE LET offset == VSub(fd[j].pos, fd[i].pos)
           dist == VLen(offset)
       IN IF dist > 0 /\ dist < separationDist
          THEN LET forceMag == RDiv(separationStrength * (separationDist - dist), U)
                   force == VScale(Normalize(offset), forceMag)
               IN VDivScalar(force, fd[i].mass)
          ELSE Zero3

\* SepForce with the force not divided by the mass
SepForce_NoMass(fd, i, j) ==
  IF i = j THEN Zero3
  ELSE LET offset == VSub(fd[i].pos, fd[j].pos)
           dist == VLen(offset)
       IN IF dist > 0 /\ dist < separationDist
          THEN LET forceMag == RDiv(separationStrength * (separationDist - dist), U)
               IN VScale(Normalize(offset), forceMag)
          ELSE Zero3

\* the separation term fish i receives from fish j
SepForce(fd, i, j) ==
  IF i = j THEN Zero3
  ELSE LET offset == VSub(fd[i].pos, fd[j].pos)
           dist == VLen(offset)
       IN IF dist > 0 /\ dist < separationDist
          THEN LET forceMag == RDiv(separationStrength * (separationDist - dist), U)
                   force == VScale(Normalize(offset), forceMag)
               IN VDivScalar(force, fd[i].mass)
          ELSE Zero3

RECURSIVE SumSep(_, _, _)
SumSep(fd, i, j) ==
  IF j > Len(fd) THEN Zero3 ELSE VAdd(SepForce(fd, i, j), SumSep(fd, i, j + 1))

SeparationAcc(fd, i) == SumSep(fd, i, 1)

Neighbors(fd, i) ==
  {j \in 1..Len(fd) : j # i /\ VLen(VSub(fd[i].pos, fd[j].pos)) < flockRadius}

RECURSIVE SumField(_, _, _, _)
SumField(fd, S, j, useVel) ==
  IF j > Len(fd) THEN Zero3
  ELSE VAdd(IF j \in S THEN (IF useVel THEN fd[j].vel ELSE fd[j].pos) ELSE Zero3,
            SumField(fd, S, j + 1, useVel))

\* alignment and cohesion over the fish within flockRadius
FlockAcc(fd, i) ==
  LET N == Neighbors(fd, i)
      n == Cardinality(N)
  IN IF n = 0 THEN Zero3
     ELSE LET avgVel == Normalize(VDivInt(SumField(fd, N, 1, TRUE), n))
              alignment == VScale(VSub(avgVel, Normalize(fd[i].vel)), alignmentStrength)
              avgPos == VDivInt(SumField(fd, N, 1, FALSE), n)
              cohesion == VScale(Normalize(VSub(avgPos, fd[i].pos)), cohesionStrength)
          IN VAdd(alignment, cohesion)

\* ForcePhase without acceleration.set(0, 0, 0)
ForcePhase_NoReset(fd, withFlock) ==
  [i \in 1..Len(fd) |->
     [fd[i] EXCEPT !.acc = VAdd(fd[i].acc,
                                VAdd(SeparationAcc(fd, i),
                                     IF withFlock THEN FlockAcc(fd, i) ELSE Zero3))]]

\* loop 1 of the tick: acceleration is reset, then the forces are added;
\* withFlock tells the loop with alignment/cohesion from the one without
ForcePhase(fd, withFlock) ==
  [i \in 1..Len(fd) |->
     [fd[i] EXCEPT !.acc = VAdd(SeparationAcc(fd, i),
                                IF withFlock THEN FlockAcc(fd, i) ELSE Zero3)]]

(* ------------------------------- move phase ---------------------------- *)
\* Blend with the factor clamped to [0, 1]
Blend_Clamped(f, tgt, dt) ==
  LET desiredDir == Normalize(VSub(tgt, f.pos))
      v1 == VAdd(f.vel, VScale(f.acc, dt))
      t == Clamp(RDiv(turnSpeed * dt, U), 0, U)
  IN [cur |-> Normalize(v1), des |-> desiredDir, t |-> RDiv(turnSpeed * dt, U),
      blended |-> Lerp(Normalize(v1), desiredDir, t)]

\* vel.add(acceleration * delta); vel.normalize().lerp(desiredDir,
\* turnSpeed * delta): the current direction, the desired direction, the
\* factor and the blended vector before it is renormalised
Blend(f, tgt, dt) ==
  LET desiredDir == Normalize(VSub(tgt, f.pos))
      v1 == VAdd(f.vel, VScale(f.acc, dt))
      t == RDiv(turnSpeed * dt, U)
  IN [cur |-> Normalize(v1), des |-> desiredDir, t |-> t,
      blended |-> Lerp(Normalize(v1), desiredDir, t)]

\* Steer with the velocity left at unit length
Steer_NoRescale(f, tgt, dt) == Normalize(Blend(f, tgt, dt).blended)

\* velocity += acceleration * delta; lerp of the direction towards the
\* target by turnSpeed * delta; setLength(fishSpeed)
Steer(f, tgt, dt) == VScale(Normalize(Blend(f, tgt, dt).blended), fishSpeed)

OutOf(x, half) == x < -half \/ x > half

\* Advance with no test against the lower bound of y
Advance_NoFloor(f, tgt, dt) ==
  LET vel == Steer(f, tgt, dt)
      p == VAdd(f.pos, VScale(vel, dt))
      bx == OutOf(p[1], halfX)
      by == p[2] > halfY
      bz == OutOf(p[3], halfZ)
  IN [vel |-> <<IF bx THEN -vel[1] ELSE vel[1],
                IF by THEN -vel[2] ELSE vel[2],
                IF bz THEN -vel[3] ELSE vel[3]>>,
      pos |-> <<IF bx THEN Clamp(p[1], -halfX, halfX) ELSE p[1],
                IF by THEN Clamp(p[2], -halfY, halfY) ELSE p[2],
                IF bz THEN Clamp(p[3], -halfZ, halfZ) ELSE p[3]>>,
      bounced |-> bx \/ by \/ bz]

\* Advance reflecting the whole velocity when any axis is out of bounds
Advance_ReflectAll(f, tgt, dt) ==
  LET vel == Steer(f, tgt, dt)
      p == VAdd(f.pos, VScale(vel, dt))
      bx == OutOf(p[1], halfX)
      by == OutOf(p[2], halfY)
      bz == OutOf(p[3], halfZ)
  IN [vel |-> IF bx \/ by \/ bz THEN VScale(vel, -U) ELSE vel,
      pos |-> <<IF bx THEN Clamp(p[1], -halfX, halfX) ELSE p[1],
                IF by THEN Clamp(p[2], -halfY, halfY) ELSE p[2],
                IF bz THEN Clamp(p[3], -halfZ, halfZ) ELSE p[3]>>,
      bounced |-> bx \/ by \/ bz]

\* Advance with the clamp left out: the velocity is reflected but the
\* position stays where the move put it
Advance_NoClamp(f, tgt, dt) ==
  LET vel == Steer(f, tgt, dt)
      p == VAdd(f.pos, VScale(vel, dt))
      bx == OutOf(p[1], halfX)
      by == OutOf(p[2], halfY)
      bz == OutOf(p[3], halfZ)
  IN [vel |-> <<IF bx THEN -vel[1] ELSE vel[1],
                IF by THEN -vel[2] ELSE vel[2],
                IF bz THEN -vel[3] ELSE vel[3]>>,
      pos |-> p,
      bounced |-> bx \/ by \/ bz]

\* one fish of loop 2 up to the bounce test: steer, move, reflect, clamp
Advance(f, tgt, dt) ==
  LET vel == Steer(f, tgt, dt)
      p == VAdd(f.pos, VScale(vel, dt))
      bx == OutOf(p[1], halfX)
      by == OutOf(p[2], halfY)
      bz == OutOf(p[3], halfZ)
  IN [vel |-> <<IF bx THEN -vel[1] ELSE vel[1],
                IF by THEN -vel[2] ELSE vel[2],
                IF bz THEN -vel[3] ELSE vel[3]>>,
      pos |-> <<IF bx THEN Clamp(p[1], -halfX, halfX) ELSE p[1],
                IF by THEN Clamp(p[2], -halfY, halfY) ELSE p[2],
                IF bz THEN Clamp(p[3], -halfZ, halfZ) ELSE p[3]>>,
      bounced |-> bx \/ by \/ bz]

Arrived(pos, tgt) == LenSq(VSub(pos, tgt)) < arriveDistSq

\* MoveFish testing the arrival with the position before the move
MoveFish_TestBeforeMove(f, tgt, dt, turn, fresh) ==
  LET a == Advance(f, tgt, dt)
      vel == IF a.bounced THEN ApplyAxisAngle(a.vel, turn[1], turn[2], turn[3])
             ELSE a.vel
  IN [fish |-> [f EXCEPT !.pos = a.pos,
                         !.vel = vel,
                         !.quat = Orient(f.quat, vel)],
      target |-> IF Arrived(f.pos, tgt) THEN fresh ELSE tgt,
      retargeted |-> Arrived(f.pos, tgt),
      bounced |-> a.bounced]

\* MoveFish with the rotation of the mesh leaking into the velocity
MoveFish_FacingFeedsBack(f, tgt, dt, turn, fresh) ==
  LET a == Advance(f, tgt, dt)
      vel == IF a.bounced THEN ApplyAxisAngle(a.vel, turn[1], turn[2], turn[3])
             ELSE a.vel
  IN [fish |-> [f EXCEPT !.pos = a.pos,
                         !.vel = VAdd(vel, <<f.quat[1], f.quat[2], f.quat[3]>>),
                         !.quat = Orient(f.quat, vel)],
      target |-> IF Arrived(a.pos, tgt) THEN fresh ELSE tgt,
      retargeted |-> Arrived(a.pos, tgt),
      bounced |-> a.bounced]

\* one fish of loop 2: steer, move, bounce, orient, retarget.  turn is the
\* random axis and angle of the bounce, fresh the point pickNewTarget
\* would draw
MoveFish(f, tgt, dt, turn, fresh) ==
  LET a == Advance(f, tgt, dt)
      vel == IF a.bounced THEN ApplyAxisAngle(a.vel, turn[1], turn[2], turn[3])
             ELSE a.vel
  IN [fish |-> [f EXCEPT !.pos = a.pos,
                         !.vel = vel,
                         !.quat = Orient(f.quat, vel)],
      target |-> IF Arrived(a.pos, tgt) THEN fresh ELSE tgt,
      retargeted |-> Arrived(a.pos, tgt),
      bounced |-> a.bounced]

(* ------------------------------- kelp chain ---------------------------- *)
\* addSeaPlants: SEGMENTS points straight up from the base, at rest
NewPlant(base) ==
  [base |-> base,
   points |-> [k \in 1..SEGMENTS |->
                 <<base[1], base[2] + RDiv((k - 1) * PLANT_LEN, SEGMENTS - 1), base[3]>>],
   velocities |-> [k \in 1..SEGMENTS |-> Zero3]]

\* step 2, one fish and one point: the push a close fish gives
Push(pt, fpos) ==
  IF VLen(VSub(pt, fpos)) < pushRadius
  THEN LET d == VSub(pt, fpos)
           side == VScale(Normalize(<<d[1], 0, d[3]>>), pushSide)
       IN <<side[1], pushUp, side[3]>>
  ELSE Zero3

RECURSIVE SumPush(_, _, _)
SumPush(pt, fd, i) ==
  IF i > Len(fd) THEN Zero3 ELSE VAdd(Push(pt, fd[i].pos), SumPush(pt, fd, i + 1))

\* exp(-x) for x >= 0 in thousandths, by its series
ExpNeg(x) ==
  LET t2 == RDiv(x * x, 2 * U)
      t3 == RDiv(t2 * x, 3 * U)
      t4 == RDiv(t3 * x, 4 * U)
      t5 == RDiv(t4 * x, 5 * U)
  IN U - x + t2 - t3 + t4 - t5

\* step 3: the idle sway of point k (1-based) for a sine value sinv
Sway(k, sinv) ==
  LET t == RDiv((k - 1) * U, SEGMENTS - 1)
  IN RDiv(sinv * 2 * (500 + t), 10 * U * U)

SpringTarget(prev, k, sinv) ==
  LET sway == Sway(k, sinv)
      a == 2 * sway
  IN VAdd(prev, ApplyAxisAngle(<<sway, jointLength, 0>>, <<0, U, 0>>,
                               U - RDiv(a * a, 2 * U), a))

\* step 3, points k..SEGMENTS in order; each reads its already moved
\* predecessor.  dtS and dtD are what the two clock.getDelta() calls return
RECURSIVE SpringFrom(_, _, _, _, _)
SpringFrom(pl, k, dtS, dtD, sinv) ==
  IF k > SEGMENTS THEN pl
  ELSE LET prev == pl.points[k - 1]
           curr == pl.points[k]
           diff == VSub(SpringTarget(prev, k, sinv), curr)
           v1 == VAdd(pl.velocities[k], VScale(diff, kelpSpring * dtS))
           v2 == VScale(v1, ExpNeg(RDiv(kelpDamping * dtD, U)))
       IN SpringFrom([pl EXCEPT !.velocities[k] = v2, !.points[k] = VAdd(curr, v2)],
                     k + 1, dtS, dtD, sinv)

\* step 4, the length constraint pass
RECURSIVE ConstrainFrom(_, _)
ConstrainFrom(pl, k) ==
  IF k > SEGMENTS THEN pl
  ELSE LET prev == pl.points[k - 1]
           dir == Normalize(VSub(pl.points[k], prev))
       IN ConstrainFrom([pl EXCEPT !.points[k] = VAdd(prev, VScale(dir, jointLength))],
                        k + 1)

\* KelpStep with the pin copying the second point instead of the base
KelpStep_PinToNext(pl, fd, dtS, dtD, sinv) ==
  LET pinned == [pl EXCEPT !.points[1] = pl.points[2], !.velocities[1] = Zero3]
      pushed == [pinned EXCEPT !.velocities =
                   [k \in 1..SEGMENTS |->
                      IF k = 1 THEN pinned.velocities[1]
                      ELSE VAdd(pinned.velocities[k], SumPush(pinned.points[k], fd, 1))]]
  IN ConstrainFrom(SpringFrom(pushed, 2, dtS, dtD, sinv), 2)

\* the kelp part of the tick for one plant
KelpStep(pl, fd, dtS, dtD, sinv) ==
  LET pinned == [pl EXCEPT !.points[1] = pl.base, !.velocities[1] = Zero3]
      pushed == [pinned EXCEPT !.velocities =
                   [k \in 1..SEGMENTS |->
                      IF k = 1 THEN pinned.velocities[1]
                      ELSE VAdd(pinned.velocities[k], SumPush(pinned.points[k], fd, 1))]]
  IN ConstrainFrom(SpringFrom(pushed, 2, dtS, dtD, sinv), 2)

(* ------------------------------ water grid ----------------------------- *)
WATER_RES_X == 5
WATER_RES_Z == 5
MaxWaterSteps == 4
WAVE_SPEED == 2000
DAMPING == 995

GridX == 0..(WATER_RES_X - 1)
GridZ == 0..(WATER_RES_Z - 1)
ZeroGrid == [x \in GridX |-> [z \in GridZ |-> 0]]
Interior(x, z) == x > 0 /\ x < WATER_RES_X - 1 /\ z > 0 /\ z < WATER_RES_Z - 1

\* clock.getDelta() of a tick of the loop with the water solver
WaterDeltas == {0, 100, 1000}

\* world coordinates a caller hands to disturbWater: on the tank wall, one
\* cell in, the centre, and (for z) beyond the far wall
WorldXs == {-(aqWidth \div 2), -5000, 0}
WorldZs == {-(aqDepth \div 2), 0, 4000, 12000}
Strengths == {300, 1000}

\* the loop body of updateWaterPhysics with DAMPING above 1
WaterCell_Amplify(g, x, z, dt) ==
  LET h == g.h
      laplacian == RDiv(h[x - 1][z] + h[x + 1][z] + h[x][z - 1] + h[x][z + 1], 4)
                   - h[x][z]
      v1 == g.v[x][z] + RDiv(RDiv(laplacian * WAVE_SPEED, U) * dt, 1000)
      v2 == RDiv(v1 * 1005, U)
  IN [h |-> [h EXCEPT ![x][z] = h[x][z] + RDiv(v2 * dt, 1000)],
      v |-> [g.v EXCEPT ![x][z] = v2]]

\* the loop body of updateWaterPhysics for cell (x, z); g is the grid as
\* the sweep has left it so far
WaterCell(g, x, z, dt) ==
  LET h == g.h
      laplacian == RDiv(h[x - 1][z] + h[x + 1][z] + h[x][z - 1] + h[x][z + 1], 4)
                   - h[x][z]
      v1 == g.v[x][z] + RDiv(RDiv(laplacian * WAVE_SPEED, U) * dt, 1000)
      v2 == RDiv(v1 * DAMPING, U)
  IN [h |-> [h EXCEPT ![x][z] = h[x][z] + RDiv(v2 * dt, 1000)],
      v |-> [g.v EXCEPT ![x][z] = v2]]

\* for x = 1 .. RES_X-2, for z = 1 .. RES_Z-2, in place
RECURSIVE WaterSweep(_, _, _, _)
WaterSweep(g, x, z, dt) ==
  IF x > WATER_RES_X - 2 THEN g
  ELSE IF z > WATER_RES_Z - 2 THEN WaterSweep(g, x + 1, 1, dt)
  ELSE WaterSweep(WaterCell(g, x, z, dt), x, z + 1, dt)

updateWaterPhysics(g, dt) == WaterSweep(g, 1, 1, dt)

\* Math.floor((world / size + 0.5) * RES)
CellIndex(world, size, res) == (2 * world * res + size * res) \div (2 * size)

\* disturbWater raising the height of the cell as well
disturbWater_Height(g, worldX, worldZ, strength) ==
  LET ix == CellIndex(worldX, aqWidth, WATER_RES_X)
      iz == CellIndex(worldZ, aqDepth, WATER_RES_Z)
  IN IF ix > 0 /\ ix < WATER_RES_X - 1 /\ iz > 0 /\ iz < WATER_RES_Z - 1
     THEN [g EXCEPT !.v[ix][iz] = g.v[ix][iz] + strength,
                    !.h[ix][iz] = g.h[ix][iz] + strength]
     ELSE g

\* disturbWater with the lower index test off by one
disturbWater_EdgeOpen(g, worldX, worldZ, strength) ==
  LET ix == CellIndex(worldX, aqWidth, WATER_RES_X)
      iz == CellIndex(worldZ, aqDepth, WATER_RES_Z)
  IN IF ix >= 0 /\ ix < WATER_RES_X - 1 /\ iz >= 0 /\ iz < WATER_RES_Z - 1
     THEN [g EXCEPT !.v[ix][iz] = g.v[ix][iz] + strength]
     ELSE g

disturbWater(g, worldX, worldZ, strength) ==
  LET ix == CellIndex(worldX, aqWidth, WATER_RES_X)
      iz == CellIndex(worldZ, aqDepth, WATER_RES_Z)
  IN IF ix > 0 /\ ix < WATER_RES_X - 1 /\ iz > 0 /\ iz < WATER_RES_Z - 1
     THEN [g EXCEPT !.v[ix][iz] = g.v[ix][iz] + strength]
     ELSE g

RECURSIVE SumSquares(_, _, _)
SumSquares(v, x, z) ==
  IF x > WATER_RES_X - 1 THEN 0
  ELSE IF z > WATER_RES_Z - 1 THEN SumSquares(v, x + 1, 0)
  ELSE v[x][z] * v[x][z] + SumSquares(v, x, z + 1)

\* the sum over all cells of velocity squared
Energy(v) == SumSquares(v, 0, 0)

(* ------------------------------ the fish mesh -------------------------- *)
MaxDivisions == 4
tailfinSlices == 5
bodyLength == 10000

\* divisions: the number of segments around a frame (200 in the program);
\* the tail contour is sampled with divisions / 2, so it is even
Divisions == {d \in 2..MaxDivisions : d % 2 = 0}

\* the axial step of computeFrames (0.05 in the program)
FrameSteps == {2000, 2500, 5000}

\* the sample counts handed to getSpacedPoints for the fin contours
\* (100 for the dorsal fin, 40 for the rect and pelvic fins)
ContourDivs == {1, 2, 3}

\* Curve.getSpacedPoints(n) and Curve.getPoints(n): n + 1 points
getSpacedPoints(curve, n) == [k \in 1..(n + 1) |-> [curve |-> curve, k |-> k - 1]]

Reverse(s) == [k \in 1..Len(s) |-> s[Len(s) + 1 - k]]

\* Array.prototype.shift: the array without its first element
Shift(s) == IF Len(s) = 0 THEN s ELSE Tail(s)

Repeat(x, n) == [k \in 1..n |-> x]

RECURSIVE Flatten(_)
Flatten(ss) == IF Len(ss) = 0 THEN <<>> ELSE Head(ss) \o Flatten(Tail(ss))

\* new THREE.PlaneGeometry(1, 1, gx, gy): (gx+1)(gy+1) vertices and two
\* triangles (a,b,d) (b,c,d) per cell
PlaneVertexCount(gx, gy) == (gx + 1) * (gy + 1)

PlaneIndex(gx, gy) ==
  [n \in 1..(6 * gx * gy) |->
     LET cell == (n - 1) \div 6
         iy == cell \div gx
         ix == cell % gx
         a == ix + (gx + 1) * iy
         b == ix + (gx + 1) * (iy + 1)
         c == (ix + 1) + (gx + 1) * (iy + 1)
         d == (ix + 1) + (gx + 1) * iy
     IN <<a, b, d, b, c, d>>[((n - 1) % 6) + 1]]

\* a plane whose position and parts attributes are replaced: the index
\* buffer stays the one of the plane grid
PlaneWith(gx, gy, pts, parts) ==
  [position |-> pts, parts |-> parts, index |-> PlaneIndex(gx, gy),
   planeCount |-> PlaneVertexCount(gx, gy)]

\* getFrame(x) and getFramePoints: a closed curve resampled with
\* getSpacedPoints(divisions)
getFramePoints(divs, x) == getSpacedPoints(<<"frame", x>>, divs)

\* for (let i = step; i < 10; i += step) frames.push(getFrame(i))
RECURSIVE FrameLoop(_, _, _)
FrameLoop(divs, i, step) ==
  IF i < bodyLength
  THEN <<getFramePoints(divs, i)>> \o FrameLoop(divs, i + step, step)
  ELSE <<>>

\* computeFrames with new Array(divisions) for the first frame
computeFrames_ShortFirst(divs, step) ==
  <<Repeat([curve |-> <<"zero">>, k |-> 0], divs)>>
    \o FrameLoop(divs, step, step)
    \o <<getFramePoints(divs, bodyLength)>>

\* computeFrames: the all-zero first frame, the loop, the tail frame
computeFrames(divs, step) ==
  <<Repeat([curve |-> <<"zero">>, k |-> 0], divs + 1)>>
    \o FrameLoop(divs, step, step)
    \o <<getFramePoints(divs, bodyLength)>>

\* the tail fin with tailParts.push(0)
tailFin_TaggedBody(divs, frames) ==
  LET tailPoints == getSpacedPoints(<<"tail">>, divs \div 2)
      fullTailPoints == tailPoints \o Shift(Reverse(tailPoints))
      last == frames[Len(frames)]
      slice == [idx \in 1..Len(last) |->
                  IF idx <= Len(fullTailPoints) THEN fullTailPoints[idx]
                  ELSE [curve |-> <<"undefined">>, k |-> idx]]
      tailPts == Flatten(Repeat(slice, tailfinSlices + 1))
  IN PlaneWith(divs, tailfinSlices, tailPts, Repeat(0, Len(tailPts)))

\* the tail fin: the last frame blended towards the closed tail contour in
\* tailfinSlices + 1 slices; slot idx of a slice reads fullTailPoints[idx],
\* which is undefined past the end of the contour
tailFin(divs, frames) ==
  LET tailPoints == getSpacedPoints(<<"tail">>, divs \div 2)
      fullTailPoints == tailPoints \o Shift(Reverse(tailPoints))
      last == frames[Len(frames)]
      slice == [idx \in 1..Len(last) |->
                  IF idx <= Len(fullTailPoints) THEN fullTailPoints[idx]
                  ELSE [curve |-> <<"undefined">>, k |-> idx]]
      tailPts == Flatten(Repeat(slice, tailfinSlices + 1))
  IN PlaneWith(divs, tailfinSlices, tailPts, Repeat(1, Len(tailPts)))

\* createFin with the reversed contour not shifted
createFin_NoShift(contourPoints) ==
  LET basePts == [k \in 1..Len(contourPoints) |->
                    [curve |-> <<"base">>, k |-> contourPoints[k].k]]
      basePtsRev == Shift(Reverse(basePts))
      contourPointsRev == Reverse(contourPoints)
      fullPoints == contourPoints \o contourPointsRev \o basePts \o basePtsRev
  IN PlaneWith((Len(contourPoints) - 1) * 2, 1, fullPoints, Repeat(1, Len(fullPoints)))

\* createFin: contour, contour back, base, base back
createFin(contourPoints) ==
  LET basePts == [k \in 1..Len(contourPoints) |->
                    [curve |-> <<"base">>, k |-> contourPoints[k].k]]
      basePtsRev == Shift(Reverse(basePts))
      contourPointsRev == Shift(Reverse(contourPoints))
      fullPoints == contourPoints \o contourPointsRev \o basePts \o basePtsRev
  IN PlaneWith((Len(contourPoints) - 1) * 2, 1, fullPoints, Repeat(1, Len(fullPoints)))

\* BufferGeometryUtils.mergeGeometries: attributes are concatenated, the
\* indices of a geometry are offset by the vertices merged before it
RECURSIVE MergeFrom(_, _, _)
MergeFrom(geoms, n, offset) ==
  IF n > Len(geoms) THEN [position |-> <<>>, parts |-> <<>>, index |-> <<>>]
  ELSE LET g == geoms[n]
           rest == MergeFrom(geoms, n + 1, offset + Len(g.position))
       IN [position |-> g.position \o rest.position,
           parts |-> g.parts \o rest.parts,
           index |-> [k \in 1..Len(g.index) |-> g.index[k] + offset] \o rest.index]

mergeGeometries(geoms) == MergeFrom(geoms, 1, 0)

\* createFishGeometry for the parameters p
createFishGeometry(p) ==
  LET frames == computeFrames(p.divisions, p.step)
      pts == Flatten(frames)
      gTail == tailFin(p.divisions, frames)
      gDorsal == createFin(getSpacedPoints(<<"dorsal">>, p.dorsal))
      gRect == createFin(getSpacedPoints(<<"rect">>, p.rect))
      gPelvic == createFin(getSpacedPoints(<<"pelvic">>, p.pelvic))
      bodyGeom == PlaneWith(p.divisions, Len(frames) - 1, pts, Repeat(0, Len(pts)))
      subs == <<bodyGeom, gTail, gDorsal, gRect, gPelvic, gPelvic>>
  IN [frames |-> frames, subs |-> subs, mainGeom |-> mergeGeometries(subs)]

(* ---------------------------- the curve lookup ------------------------ *)
MaxCurveLen == 3

\* sampled curve points: x grows along the curve, as on the top, bottom
\* and side contours of the body
CurveXs == {0, 1000, 3500, 9000}
CurveYs == {0, 750}
CurvePoints == {<<x, y, 0>> : x \in CurveXs, y \in CurveYs}
Curves == {c \in [1..MaxCurveLen -> CurvePoints] :
             \A k \in 1..(MaxCurveLen - 1) : c[k][1] < c[k + 1][1]}

\* axial positions asked for: before, on, between and after the samples
Queries == {-500, 0, 500, 1000, 2000, 3500, 9000, 9500}

Undefined == [found |-> FALSE]

\* the loop of getPoint from index i on: the first pair with
\* i1.x <= x <= i2.x gives lerpVectors(i1, i2, (x - i1.x) / (i2.x - i1.x));
\* falling off the end of the loop returns undefined
RECURSIVE GetPointFrom(_, _, _)
GetPointFrom(curvePoints, x, i) ==
  IF i > Len(curvePoints) - 1 THEN Undefined
  ELSE LET i1 == curvePoints[i]
           i2 == curvePoints[i + 1]
       IN IF x >= i1[1] /\ x <= i2[1]
          THEN [found |-> TRUE,
                point |-> Lerp(i1, i2, RDiv((x - i1[1]) * U, i2[1] - i1[1]))]
          ELSE GetPointFrom(curvePoints, x, i + 1)

\* getPoint answering with the nearest end of the curve when no pair matches
getPoint_Clamped(curvePoints, x) ==
  LET r == GetPointFrom(curvePoints, x, 1)
  IN IF r.found THEN r
     ELSE [found |-> TRUE,
           point |-> IF x < curvePoints[1][1] THEN curvePoints[1]
                     ELSE curvePoints[Len(curvePoints)]]

getPoint(curvePoints, x) == GetPointFrom(curvePoints, x, 1)

(* --------------------- the animation loop with kelp -------------------- *)
NoMesh == [stage |-> "none"]

InitWater ==
  /\ waterHeights = ZeroGrid
  /\ waterVelocities = ZeroGrid

\* the state after the script has run: updateFishCount(params.fishCount)
\* and addSeaPlants(scene)
Init ==
  /\ \E ms \in [1..MaxFish -> Masses], ts \in [1..MaxFish -> Targets] :
       LET r == updateFishCount(<<>>, <<>>, MaxFish, ms, ts)
       IN fishData = r.fd /\ targets = r.tg
  /\ flocking = TRUE
  /\ \E bs \in [1..PlantCount -> Bases] :
       seaPlants = [n \in 1..PlantCount |-> NewPlant(bs[n])]
  /\ pc = "idle"
  /\ delta = 0
  /\ phaseLog = <<>>
  /\ ticks = 0
  /\ edits = 0
  /\ InitWater
  /\ sceneEnvironment = NullMap
  /\ sandVertexY = sandOrigY
  /\ mesh = NoMesh
  /\ lastOp = [op |-> "init"]

\* UpdateFishCount let in while the animation callback is running
UpdateFishCount_MidTick ==
  /\ edits < MaxEdits
  /\ edits' = edits + 1
  /\ \E count \in 0..MaxFish :
     \E ms \in [(Len(fishData) + 1)..count -> Masses],
        ts \in [(Len(fishData) + 1)..count -> Targets] :
       /\ count # Len(fishData)
       /\ LET r == updateFishCount(fishData, targets, count, ms, ts)
          IN fishData' = r.fd /\ targets' = r.tg
       /\ lastOp' = [op |-> "updateFishCount", count |-> count]
  /\ UNCHANGED <<flocking, seaPlants, pc, delta, phaseLog, ticks, waterVars, mesh, sceneEnvironment, sandVertexY>>

\* the GUI's fishCount slider: onChange(updateFishCount)
UpdateFishCountWith(maxEdits) ==
  /\ pc = "idle"
  /\ edits < maxEdits
  /\ edits' = edits + 1
  /\ \E count \in 0..MaxFish :
     \E ms \in [(Len(fishData) + 1)..count -> Masses],
        ts \in [(Len(fishData) + 1)..count -> Targets] :
       /\ count # Len(fishData)
       /\ LET r == updateFishCount(fishData, targets, count, ms, ts)
          IN fishData' = r.fd /\ targets' = r.tg
       /\ lastOp' = [op |-> "updateFishCount", count |-> count]
  /\ UNCHANGED <<flocking, seaPlants, pc, delta, phaseLog, ticks, waterVars, mesh, sceneEnvironment, sandVertexY>>

UpdateFishCount == UpdateFishCountWith(MaxEdits)

\* the random draws loop 2 does not use are fixed, so that they do not
\* multiply the successors
NoTurn == <<<<0, 0, 1000>>, 1000, 0>>
NoTarget == Zero3

\* the callback starts: const delta = clock.getDelta()
TickBeginWith(D, maxTicks) ==
  /\ pc = "idle"
  /\ ticks < maxTicks
  /\ \E d \in D : delta' = d
  /\ pc' = "forces"
  /\ phaseLog' = <<>>
  /\ ticks' = ticks + 1
  /\ lastOp' = [op |-> "tickBegin"]
  /\ UNCHANGED <<fishData, targets, flocking, seaPlants, edits, waterVars, mesh, sceneEnvironment, sandVertexY>>

TickBegin == TickBeginWith(Deltas, MaxTicks)

\* loop 1: separation, alignment, cohesion
ForceStep ==
  /\ pc = "forces"
  /\ fishData' = ForcePhase(fishData, flocking)
  /\ pc' = "move"
  /\ lastOp' = [op |-> "forces",
                accBefore |-> [i \in 1..Len(fishData) |-> fishData[i].acc]]
  /\ UNCHANGED <<targets, flocking, seaPlants, delta, phaseLog, ticks, edits, waterVars, mesh, sceneEnvironment, sandVertexY>>

\* MoveStep handing over to the renderer without the kelp step
MoveStep_SkipChain ==
  /\ pc = "move"
  /\ \E turn \in [1..Len(fishData) -> Turns \cup {NoTurn}],
        fresh \in [1..Len(fishData) -> Targets \cup {NoTarget}] :
       /\ \A i \in 1..Len(fishData) :
            LET a == Advance(fishData[i], targets[i], delta)
            IN /\ (turn[i] = NoTurn) = ~a.bounced
               /\ (fresh[i] = NoTarget) = ~Arrived(a.pos, targets[i])
       /\ LET r == [i \in 1..Len(fishData) |->
                   MoveFish(fishData[i], targets[i], delta, turn[i], fresh[i])]
         IN /\ fishData' = [i \in 1..Len(fishData) |-> r[i].fish]
            /\ targets' = [i \in 1..Len(fishData) |-> r[i].target]
            /\ lastOp' = [op |-> "move",
                          bounced |-> {i \in 1..Len(fishData) : r[i].bounced},
                          before |-> [i \in 1..Len(fishData) |-> fishData[i].pos],
                          targetsBefore |-> targets,
                          retargeted |-> {i \in 1..Len(fishData) : r[i].retargeted},
                          fresh |-> fresh,
                          turn |-> turn,
                          blend |-> [i \in 1..Len(fishData) |->
                                       Blend(fishData[i], targets[i], delta)]]
  /\ pc' = "render"
  /\ phaseLog' = Append(phaseLog, "flock")
  /\ UNCHANGED <<flocking, seaPlants, delta, ticks, edits, waterVars, mesh, sceneEnvironment, sandVertexY>>

\* loop 2: steer, move, bounce, retarget, for every fish
MoveStep ==
  /\ pc = "move"
  /\ \E turn \in [1..Len(fishData) -> Turns \cup {NoTurn}],
        fresh \in [1..Len(fishData) -> Targets \cup {NoTarget}] :
       /\ \A i \in 1..Len(fishData) :
            LET a == Advance(fishData[i], targets[i], delta)
            IN /\ (turn[i] = NoTurn) = ~a.bounced
               /\ (fresh[i] = NoTarget) = ~Arrived(a.pos, targets[i])
       /\ LET r == [i \in 1..Len(fishData) |->
                   MoveFish(fishData[i], targets[i], delta, turn[i], fresh[i])]
         IN /\ fishData' = [i \in 1..Len(fishData) |-> r[i].fish]
            /\ targets' = [i \in 1..Len(fishData) |-> r[i].target]
            /\ lastOp' = [op |-> "move",
                          bounced |-> {i \in 1..Len(fishData) : r[i].bounced},
                          before |-> [i \in 1..Len(fishData) |-> fishData[i].pos],
                          targetsBefore |-> targets,
                          retargeted |-> {i \in 1..Len(fishData) : r[i].retargeted},
                          fresh |-> fresh,
                          turn |-> turn,
                          blend |-> [i \in 1..Len(fishData) |->
                                       Blend(fishData[i], targets[i], delta)]]
  /\ pc' = IF flocking THEN "chain" ELSE "render"
  /\ phaseLog' = Append(phaseLog, "flock")
  /\ UNCHANGED <<flocking, seaPlants, delta, ticks, edits, waterVars, mesh, sceneEnvironment, sandVertexY>>

\* ChainStep reading the position fish 1 had before the move of the tick
ChainStep_PreMove ==
  /\ pc = "chain"
  /\ \E dtS \in ChainDts, dtD \in ChainDts, sinv \in Sines :
       LET seen == [i \in 1..Len(fishData) |->
                      IF i = 1 THEN [fishData[i] EXCEPT !.pos = lastOp.before[i]]
                      ELSE fishData[i]]
       IN /\ seaPlants' = [n \in 1..Len(seaPlants) |->
                             KelpStep(seaPlants[n], seen, dtS, dtD, sinv)]
          /\ lastOp' = [op |-> "chain", dtS |-> dtS, dtD |-> dtD,
                        read |-> [i \in 1..Len(seen) |-> seen[i].pos],
                        premove |-> lastOp.before]
  /\ pc' = "render"
  /\ phaseLog' = Append(phaseLog, "chain")
  /\ UNCHANGED <<fishData, targets, flocking, delta, ticks, edits, waterVars, mesh, sceneEnvironment, sandVertexY>>

\* seaPlants.forEach: pin, fish pushes, spring, length constraint; seen is
\* the fish list the push loop reads
ChainStep ==
  /\ pc = "chain"
  /\ \E dtS \in ChainDts, dtD \in ChainDts, sinv \in Sines :
       LET seen == fishData
       IN /\ seaPlants' = [n \in 1..Len(seaPlants) |->
                             KelpStep(seaPlants[n], seen, dtS, dtD, sinv)]
          /\ lastOp' = [op |-> "chain", dtS |-> dtS, dtD |-> dtD,
                        read |-> [i \in 1..Len(seen) |-> seen[i].pos],
                        premove |-> lastOp.before]
  /\ pc' = "render"
  /\ phaseLog' = Append(phaseLog, "chain")
  /\ UNCHANGED <<fishData, targets, flocking, delta, ticks, edits, waterVars, mesh, sceneEnvironment, sandVertexY>>

\* renderer.render(scene, camera); controls.update()
Render ==
  /\ pc = "render"
  /\ pc' = "idle"
  /\ phaseLog' = Append(phaseLog, "render")
  /\ lastOp' = [op |-> "render"]
  /\ UNCHANGED <<fishData, targets, flocking, seaPlants, delta, ticks, edits, waterVars, mesh, sceneEnvironment, sandVertexY>>

Next ==
  \/ UpdateFishCount
  \/ TickBegin
  \/ ForceStep
  \/ MoveStep
  \/ ChainStep
  \/ Render

Spec == Init /\ [][Next]_vars

(* ---------------------- the kelp chains next to fish ------------------- *)
\* the fish are somewhere inside the motion bounds, the kelp is as built
InitChain ==
  /\ \E ps \in [1..MaxFish -> FishSpots] :
       fishData = [i \in 1..MaxFish |-> [NewFish(1000) EXCEPT !.pos = ps[i]]]
  /\ targets = [i \in 1..MaxFish |-> <<halfX, halfY, halfZ>>]
  /\ flocking = TRUE
  /\ \E bs \in [1..PlantCount -> Bases] :
       seaPlants = [n \in 1..PlantCount |-> NewPlant(bs[n])]
  /\ pc = "idle"
  /\ delta = 0
  /\ phaseLog = <<>>
  /\ ticks = 0
  /\ edits = 0
  /\ InitWater
  /\ sceneEnvironment = NullMap
  /\ sandVertexY = sandOrigY
  /\ mesh = NoMesh
  /\ lastOp = [op |-> "init"]

\* two frames with the same time stamp: the fish turn but do not move
TickBeginPaused == TickBeginWith({0}, MaxChainTicks)

NextChain ==
  \/ TickBeginPaused
  \/ ForceStep
  \/ MoveStep
  \/ ChainStep
  \/ Render

SpecChain == InitChain /\ [][NextChain]_vars

(* ------------------------------ the water grid ------------------------- *)
InitWaterGrid ==
  /\ fishData = <<>>
  /\ targets = <<>>
  /\ flocking = FALSE
  /\ seaPlants = <<>>
  /\ pc = "idle"
  /\ delta = 0
  /\ phaseLog = <<>>
  /\ ticks = 0
  /\ edits = 0
  /\ InitWater
  /\ sceneEnvironment = NullMap
  /\ sandVertexY = sandOrigY
  /\ mesh = NoMesh
  /\ lastOp = [op |-> "init"]

\* the tick calls updateWaterPhysics(delta)
UpdateWater ==
  /\ ticks < MaxWaterSteps
  /\ ticks' = ticks + 1
  /\ \E dt \in WaterDeltas :
       LET g == updateWaterPhysics([h |-> waterHeights, v |-> waterVelocities], dt)
       IN /\ waterHeights' = g.h
          /\ waterVelocities' = g.v
          /\ lastOp' = [op |-> "update", delta |-> dt,
                        energyBefore |-> Energy(waterVelocities),
                        before |-> [h |-> waterHeights, v |-> waterVelocities]]
  /\ UNCHANGED <<fishData, targets, flocking, seaPlants, pc, delta, phaseLog, edits, mesh, sceneEnvironment, sandVertexY>>

\* a caller disturbs the surface
DisturbWater ==
  /\ ticks < MaxWaterSteps
  /\ ticks' = ticks + 1
  /\ \E wx \in WorldXs, wz \in WorldZs, strength \in Strengths :
       LET g == disturbWater([h |-> waterHeights, v |-> waterVelocities], wx, wz, strength)
       IN /\ waterHeights' = g.h
          /\ waterVelocities' = g.v
          /\ lastOp' = [op |-> "disturb",
                        ix |-> CellIndex(wx, aqWidth, WATER_RES_X),
                        iz |-> CellIndex(wz, aqDepth, WATER_RES_Z),
                        strength |-> strength,
                        before |-> [h |-> waterHeights, v |-> waterVelocities]]
  /\ UNCHANGED <<fishData, targets, flocking, seaPlants, pc, delta, phaseLog, edits, mesh, sceneEnvironment, sandVertexY>>

NextWater ==
  \/ UpdateWater
  \/ DisturbWater

SpecWater == InitWaterGrid /\ [][NextWater]_vars

(* ------------------- population changes between ticks ---------------- *)
MaxPopEdits == 3
MaxPopTicks == 2

UpdateFishCountPop == UpdateFishCountWith(MaxPopEdits)

TickBeginPop == TickBeginWith({100}, MaxPopTicks)

NextPop ==
  \/ UpdateFishCountPop
  \/ TickBeginPop
  \/ ForceStep
  \/ MoveStep
  \/ ChainStep
  \/ Render

SpecPop == Init /\ [][NextPop]_vars

(* ------------------- the loop that deforms the sand -------------------- *)
MaxSandTicks == 2

\* fish low in the tank, above sample vertices of the sand
SandSpots == {<<0, -2000, 0>>, <<200, -halfY, 0>>, <<5000, 1000, -3000>>}
SandHeadings == {<<0, -2000, 0>>, <<2000, 0, 0>>}
SandTargets == {<<0, -halfY, 0>>, <<halfX, -halfY, halfZ>>}
SandDeltas == {100, 1200}

InitSand ==
  /\ \E ps \in [1..MaxFish -> SandSpots], vs \in [1..MaxFish -> SandHeadings],
        ts \in [1..MaxFish -> SandTargets] :
       /\ fishData = [i \in 1..MaxFish |->
                        [NewFish(1000) EXCEPT !.pos = ps[i], !.vel = vs[i]]]
       /\ targets = ts
  /\ flocking = FALSE
  /\ seaPlants = <<>>
  /\ pc = "idle"
  /\ delta = 0
  /\ phaseLog = <<>>
  /\ ticks = 0
  /\ edits = 0
  /\ InitWater
  /\ sceneEnvironment = NullMap
  /\ sandVertexY = sandOrigY
  /\ mesh = NoMesh
  /\ lastOp = [op |-> "init"]

TickBeginSand == TickBeginWith(SandDeltas, MaxSandTicks)

\* the end of the callback: the fish near the sand deform it, the sand
\* relaxes, the water is advanced, the scene is rendered
SandStep ==
  /\ pc = "render"
  /\ sandVertexY' = relaxSand(DeformFrom(sandVertexY, fishData, 1), delta)
  /\ LET g == updateWaterPhysics([h |-> waterHeights, v |-> waterVelocities], delta)
     IN waterHeights' = g.h /\ waterVelocities' = g.v
  /\ pc' = "idle"
  /\ phaseLog' = Append(phaseLog, "render")
  /\ lastOp' = [op |-> "sand",
                deformed |-> {i \in 1..Len(fishData) : NearSand(fishData[i].pos)}]
  /\ UNCHANGED <<fishData, targets, flocking, seaPlants, delta, ticks, edits, mesh,
                 sceneEnvironment>>

NextSand ==
  \/ TickBeginSand
  \/ ForceStep
  \/ MoveStep
  \/ SandStep

SpecSand == InitSand /\ [][NextSand]_vars

(* ------------------- the HDR environment arrives ----------------------- *)
\* the callback of RGBELoader.load: the script has run to its end and no
\* animation callback is running
HdrLoaded ==
  /\ pc = "idle"
  /\ sceneEnvironment = NullMap
  /\ sceneEnvironment' = HdrMap
  /\ fishData' = [i \in 1..Len(fishData) |-> [fishData[i] EXCEPT !.envMap = HdrMap]]
  /\ lastOp' = [op |-> "hdrLoaded"]
  /\ UNCHANGED <<targets, flocking, seaPlants, pc, delta, phaseLog, ticks, edits,
                 waterVars, mesh, sandVertexY>>

NextEnv ==
  \/ UpdateFishCountPop
  \/ HdrLoaded
  \/ TickBeginPop
  \/ ForceStep
  \/ MoveStep
  \/ ChainStep
  \/ Render

SpecEnv == Init /\ [][NextEnv]_vars

(* ------------------- two fish 0.2 apart, the force phase --------------- *)
\* offsets of length 0.2 between the two fish
CloseOffsets == {<<200, 0, 0>>, <<0, -200, 0>>, <<120, 160, 0>>, <<0, 120, -160>>}

\* velocities of length fishSpeed
Headings == {<<2000, 0, 0>>, <<0, -2000, 0>>, <<-1200, 0, 1600>>}

\* a tick has started with exactly two fish, 0.2 apart, each with a mass
\* updateFishCount can have drawn; flocking tells the loop with alignment
\* and cohesion from the loops without
InitForce ==
  /\ \E p \in FishSpots, off \in CloseOffsets, va \in Headings, vb \in Headings,
        ma \in Masses, mb \in Masses :
       fishData = <<[pos |-> p, vel |-> va, acc |-> Zero3, mass |-> ma, quat |-> IdentityQuat,
      envMap |-> NullMap],
                    [pos |-> VAdd(p, off), vel |-> vb, acc |-> Zero3, mass |-> mb, quat |-> IdentityQuat,
      envMap |-> NullMap]>>
  /\ targets = <<Zero3, Zero3>>
  /\ flocking \in BOOLEAN
  /\ seaPlants = <<>>
  /\ pc = "forces"
  /\ delta = 100
  /\ phaseLog = <<>>
  /\ ticks = 1
  /\ edits = 0
  /\ InitWater
  /\ sceneEnvironment = NullMap
  /\ sandVertexY = sandOrigY
  /\ mesh = NoMesh
  /\ lastOp = [op |-> "tickBegin"]

NextForce == ForceStep

SpecForce == InitForce /\ [][NextForce]_vars

(* --------------------- one fish seeking its target --------------------- *)
MaxSeekTicks == 50

\* one fish at the origin heading along +x with its target at (5,0,0), in
\* the loop without alignment, cohesion and kelp
InitSeek ==
  /\ \E m \in Masses : fishData = <<NewFish(m)>>
  /\ targets = <<<<5 * U, 0, 0>>>>
  /\ flocking = FALSE
  /\ seaPlants = <<>>
  /\ pc = "idle"
  /\ delta = 0
  /\ phaseLog = <<>>
  /\ ticks = 0
  /\ edits = 0
  /\ InitWater
  /\ sceneEnvironment = NullMap
  /\ sandVertexY = sandOrigY
  /\ mesh = NoMesh
  /\ lastOp = [op |-> "init"]

\* every tick has delta = 0.1
TickBeginSeek == TickBeginWith({100}, MaxSeekTicks)

NextSeek ==
  \/ TickBeginSeek
  \/ ForceStep
  \/ MoveStep
  \/ Render

SpecSeek == InitSeek /\ [][NextSeek]_vars

(* ------------------------- building the fish mesh ---------------------- *)
InitMesh ==
  /\ fishData = <<>>
  /\ targets = <<>>
  /\ flocking = FALSE
  /\ seaPlants = <<>>
  /\ pc = "idle"
  /\ delta = 0
  /\ phaseLog = <<>>
  /\ ticks = 0
  /\ edits = 0
  /\ InitWater
  /\ sceneEnvironment = NullMap
  /\ sandVertexY = sandOrigY
  /\ \E d \in Divisions, s \in FrameSteps, cd \in ContourDivs, cr \in ContourDivs,
        cp \in ContourDivs :
       mesh = [stage |-> "params", divisions |-> d, step |-> s,
               dorsal |-> cd, rect |-> cr, pelvic |-> cp]
  /\ lastOp = [op |-> "init"]

\* createFish calls createFishGeometry()
CreateFishGeometry ==
  /\ mesh.stage = "params"
  /\ mesh' = [stage |-> "built", divisions |-> mesh.divisions,
              out |-> createFishGeometry(mesh)]
  /\ lastOp' = [op |-> "createFishGeometry"]
  /\ UNCHANGED <<flockVars, waterVars, sceneEnvironment, sandVertexY>>

NextMesh == CreateFishGeometry

SpecMesh == InitMesh /\ [][NextMesh]_vars

(* ----------------- two fish at a distance, the force phase ------------- *)
\* offsets between the two fish, of length 0, 0.2, 0.5, 0.999, 1.0, 1.2
\* and 3.5
SepOffsets == {<<0, 0, 0>>, <<200, 0, 0>>, <<0, -200, 0>>, <<0, 300, 400>>, <<-300, 0, -400>>,
               <<0, -999, 0>>, <<600, 0, 800>>, <<1200, 0, 0>>, <<3500, 0, 0>>}

\* a tick has started with two fish; each may carry an acceleration from
\* the tick before; flocking tells the loop with alignment and cohesion
\* from the loops without
OldAccs == {Zero3, <<700, -300, 0>>}

InitSep ==
  /\ \E p \in FishSpots, off \in SepOffsets, va \in Headings, vb \in Headings,
        ma \in Masses, mb \in Masses, old \in OldAccs :
       fishData = <<[pos |-> p, vel |-> va, acc |-> old, mass |-> ma, quat |-> IdentityQuat,
      envMap |-> NullMap],
                    [pos |-> VAdd(p, off), vel |-> vb, acc |-> old, mass |-> mb, quat |-> IdentityQuat,
      envMap |-> NullMap]>>
  /\ targets = <<Zero3, Zero3>>
  /\ flocking \in BOOLEAN
  /\ seaPlants = <<>>
  /\ pc = "forces"
  /\ delta = 100
  /\ phaseLog = <<>>
  /\ ticks = 1
  /\ edits = 0
  /\ InitWater
  /\ sceneEnvironment = NullMap
  /\ sandVertexY = sandOrigY
  /\ mesh = NoMesh
  /\ lastOp = [op |-> "tickBegin"]

NextSep == ForceStep

SpecSep == InitSep /\ [][NextSep]_vars

(* ---------------------- fish close to their targets ------------------- *)
MaxArriveTicks == 3

\* positions a fish can have on its way to the target (5,0,0), and a
\* position far from it
ArriveSpots == {<<4400, 0, 0>>, <<4000, 300, 0>>, <<-3000, 1000, 2000>>}
ArriveTargets == {<<5 * U, 0, 0>>, <<halfX, halfY, halfZ>>}

InitArrive ==
  /\ \E ps \in [1..MaxFish -> ArriveSpots], ts \in [1..MaxFish -> ArriveTargets] :
       /\ fishData = [i \in 1..MaxFish |-> [NewFish(1000) EXCEPT !.pos = ps[i]]]
       /\ targets = ts
  /\ flocking = TRUE
  /\ \E bs \in [1..PlantCount -> Bases] :
       seaPlants = [n \in 1..PlantCount |-> NewPlant(bs[n])]
  /\ pc = "idle"
  /\ delta = 0
  /\ phaseLog = <<>>
  /\ ticks = 0
  /\ edits = 0
  /\ InitWater
  /\ sceneEnvironment = NullMap
  /\ sandVertexY = sandOrigY
  /\ mesh = NoMesh
  /\ lastOp = [op |-> "init"]

TickBeginArrive == TickBeginWith({100}, MaxArriveTicks)

NextArrive ==
  \/ TickBeginArrive
  \/ ForceStep
  \/ MoveStep
  \/ ChainStep
  \/ Render

SpecArrive == InitArrive /\ [][NextArrive]_vars

(* ------------------------ one fish and slow frames --------------------- *)
MaxSteerTicks == 3

\* targets ahead of the fish, to its side and behind it
SteerTargets == {<<5 * U, 0, 0>>, <<1000, -2000, 0>>, <<-3000, 0, 0>>}

\* frame times of 0.1 s, a third of a second, 1 s and 5 s
SteerDeltas == {100, 333, 1000, 5000}

\* one fish at the origin heading along +x, in the loop without alignment,
\* cohesion and kelp
InitSteer ==
  /\ \E m \in Masses : fishData = <<NewFish(m)>>
  /\ \E t \in SteerTargets : targets = <<t>>
  /\ flocking = FALSE
  /\ seaPlants = <<>>
  /\ pc = "idle"
  /\ delta = 0
  /\ phaseLog = <<>>
  /\ ticks = 0
  /\ edits = 0
  /\ InitWater
  /\ sceneEnvironment = NullMap
  /\ sandVertexY = sandOrigY
  /\ mesh = NoMesh
  /\ lastOp = [op |-> "init"]

TickBeginSteer == TickBeginWith(SteerDeltas, MaxSteerTicks)

NextSteer ==
  \/ TickBeginSteer
  \/ ForceStep
  \/ MoveStep
  \/ Render

SpecSteer == InitSteer /\ [][NextSteer]_vars

(* --------------------------- looking up a point ------------------------ *)
InitLookup ==
  /\ fishData = <<>>
  /\ targets = <<>>
  /\ flocking = FALSE
  /\ seaPlants = <<>>
  /\ pc = "idle"
  /\ delta = 0
  /\ phaseLog = <<>>
  /\ ticks = 0
  /\ edits = 0
  /\ InitWater
  /\ sceneEnvironment = NullMap
  /\ sandVertexY = sandOrigY
  /\ \E c \in Curves, x \in Queries :
       mesh = [stage |-> "query", curvePoints |-> c, x |-> x]
  /\ lastOp = [op |-> "init"]

\* getFrame and createFin call getPoint(curvePoints, x)
GetPoint ==
  /\ mesh.stage = "query"
  /\ mesh' = [stage |-> "answered", curvePoints |-> mesh.curvePoints, x |-> mesh.x,
              result |-> getPoint(mesh.curvePoints, mesh.x)]
  /\ lastOp' = [op |-> "getPoint"]
  /\ UNCHANGED <<flockVars, waterVars, sceneEnvironment, sandVertexY>>

NextLookup == GetPoint

SpecLookup == InitLookup /\ [][NextLookup]_vars

(* ================================ claims =============================== *)

InBounds(p) ==
  /\ -halfX <= p[1] /\ p[1] <= halfX
  /\ -halfY <= p[2] /\ p[2] <= halfY
  /\ -halfZ <= p[3] /\ p[3] <= halfZ

\* C1: every live fish is inside the motion bounds on all three axes, in
\* the initial state, after every tick and after every population change
C1_PositionsInBounds ==
  \A i \in 1..Len(fishData) : InBounds(fishData[i].pos)

\* a tick has just moved a fish past a wall and put it back on the wall
C1_Witness ==
  /\ lastOp.op = "move"
  /\ \E i \in lastOp.bounced :
       \/ Abs(fishData[i].pos[1]) = halfX
       \/ Abs(fishData[i].pos[2]) = halfY
       \/ Abs(fishData[i].pos[3]) = halfZ

Tol == 2

JointOk(pl, k) ==
  Abs(VLen(VSub(pl.points[k], pl.points[k - 1])) - jointLength) <= Tol

\* C2: in every chain, in the initial state and after every tick, each
\* pair of consecutive points is jointLength apart (to the resolution of
\* the arithmetic), whatever the spring step produced
C2_JointLength ==
  \A n \in 1..Len(seaPlants) : \A k \in 2..SEGMENTS : JointOk(seaPlants[n], k)

OnRing(x, z) == ~Interior(x, z)

\* C3: the height and the velocity of every cell on the outermost ring of
\* the grid stay exactly 0 under any updateWaterPhysics and disturbWater
C3_RingStaysZero ==
  \A x \in GridX : \A z \in GridZ :
    OnRing(x, z) => waterHeights[x][z] = 0 /\ waterVelocities[x][z] = 0

\* a caller has just aimed disturbWater at a ring cell while the interior
\* is already moving
C3_Witness ==
  /\ lastOp.op = "disturb"
  /\ lastOp.ix \in GridX /\ lastOp.iz \in GridZ
  /\ OnRing(lastOp.ix, lastOp.iz)
  /\ \E x \in GridX : \E z \in GridZ : waterHeights[x][z] # 0

\* C4 as stated: no updateWaterPhysics step increases the sum of squared
\* velocities
C4_EnergyNeverIncreases ==
  lastOp.op = "update" => Energy(waterVelocities) <= lastOp.energyBefore

\* C4 amended: a step with delta = 0 does not increase the sum of squared
\* velocities (every interior velocity is only multiplied by DAMPING)
C4_EnergyAtZeroDelta ==
  (lastOp.op = "update" /\ lastOp.delta = 0)
    => Energy(waterVelocities) <= lastOp.energyBefore

\* a step with delta = 0 has just damped a moving surface
C4_Witness ==
  /\ lastOp.op = "update" /\ lastOp.delta = 0
  /\ lastOp.energyBefore > 0
  /\ Energy(waterVelocities) < lastOp.energyBefore

SingleImpulse(g, a, b) ==
  /\ g.h = ZeroGrid
  /\ g.v = [ZeroGrid EXCEPT ![a][b] = 1000]

AxisAdjacent(a, b, x, z) ==
  \/ (x = a /\ (z = b - 1 \/ z = b + 1))
  \/ (z = b /\ (x = a - 1 \/ x = a + 1))

\* C5: one step with delta > 0 from a grid at rest but for velocity 1.0 in
\* one interior cell (a,b) leaves the four axis-adjacent cells with a
\* nonzero height and every cell other than those five at height 0
C5_ImpulseReachesNeighboursOnly ==
  (lastOp.op = "update" /\ lastOp.delta > 0) =>
    \A a \in GridX : \A b \in GridZ :
      (Interior(a, b) /\ SingleImpulse(lastOp.before, a, b)) =>
        \A x \in GridX : \A z \in GridZ :
          /\ AxisAdjacent(a, b, x, z) => waterHeights[x][z] # 0
          /\ (~AxisAdjacent(a, b, x, z) /\ <<x, z>> # <<a, b>>) => waterHeights[x][z] = 0

OppositeSigns(a, b) ==
  \A c \in 1..3 : (a[c] > 0 /\ b[c] < 0) \/ (a[c] < 0 /\ b[c] > 0) \/ (a[c] = 0 /\ b[c] = 0)

\* C6 as stated: after the force phase both accelerations are non-zero,
\* of equal magnitude and opposite, whatever the two masses are
C6_EqualAndOpposite ==
  pc = "move" =>
    /\ fishData[1].acc # Zero3 /\ fishData[2].acc # Zero3
    /\ fishData[1].acc = VNeg(fishData[2].acc)

\* C6 amended: after the force phase the two accelerations are equal and
\* opposite exactly when the two masses are equal, and in the loop without
\* alignment and cohesion both are non-zero and point in opposite directions
C6_OppositeIffEqualMass ==
  pc = "move" =>
    /\ (fishData[1].acc = VNeg(fishData[2].acc)) <=> (fishData[1].mass = fishData[2].mass)
    /\ ~flocking =>
         /\ fishData[1].acc # Zero3 /\ fishData[2].acc # Zero3
         /\ OppositeSigns(fishData[1].acc, fishData[2].acc)

\* the force phase has run for two fish of different mass and left
\* accelerations of different magnitude
C6_Witness ==
  /\ pc = "move"
  /\ fishData[1].mass # fishData[2].mass
  /\ LenSq(fishData[1].acc) # LenSq(fishData[2].acc)
  /\ fishData[1].acc # Zero3

SeekTarget == <<5 * U, 0, 0>>

AlongX(v) == v[1] > 0 /\ v[1] * v[1] * 10 >= 9 * LenSq(v)

\* C7 as stated: after 50 ticks the fish is within 0.5 of (5,0,0) and its
\* velocity points along +x
C7_NearTargetAfter50 ==
  (pc = "idle" /\ ticks = MaxSeekTicks) =>
    /\ LenSq(VSub(fishData[1].pos, SeekTarget)) <= 250000
    /\ AlongX(fishData[1].vel)

\* the first tick count n with (5 - 0.2 n)^2 below the arrival threshold
ArrivalTick ==
  CHOOSE n \in 0..MaxSeekTicks :
    /\ (5 * U - n * RDiv(fishSpeed * 100, U)) * (5 * U - n * RDiv(fishSpeed * 100, U)) < arriveDistSq
    /\ \A m \in 0..(n - 1) :
         (5 * U - m * RDiv(fishSpeed * 100, U)) * (5 * U - m * RDiv(fishSpeed * 100, U)) >= arriveDistSq

\* C7 amended: up to tick 23 (ArrivalTick) the fish moves 0.2 along +x per tick with its
\* velocity along +x; tick 23 is the first to end within 0.5 of (5,0,0)
\* and that tick replaces the target
C7_ArrivesAtTick23 ==
  (pc = "idle" /\ ticks <= ArrivalTick) =>
    /\ fishData[1].pos = <<200 * ticks, 0, 0>>
    /\ fishData[1].vel = <<fishSpeed, 0, 0>>
    /\ (LenSq(VSub(fishData[1].pos, SeekTarget)) < arriveDistSq) <=> (ticks = ArrivalTick)
    /\ (targets[1] = SeekTarget) <=> (ticks < ArrivalTick)

\* tick 23 has ended: the fish is within 0.5 of (5,0,0) and has a new target
C7_Witness ==
  /\ pc = "idle" /\ ticks = ArrivalTick
  /\ fishData[1].pos = <<4600, 0, 0>>
  /\ targets[1] # SeekTarget

RECURSIVE SumPlaneCounts(_, _)
SumPlaneCounts(subs, n) ==
  IF n > Len(subs) THEN 0 ELSE subs[n].planeCount + SumPlaneCounts(subs, n + 1)

\* C8: every sub-mesh has as many positions as the plane grid whose index
\* buffer it reuses; the merged mesh has frameCount * (divisions + 1)
\* vertices plus the fins' vertex counts, and every index is below that
C8_VertexCounts ==
  mesh.stage = "built" =>
    LET o == mesh.out
        total == Len(o.mainGeom.position)
    IN /\ \A n \in 1..Len(o.subs) : Len(o.subs[n].position) = o.subs[n].planeCount
       /\ total = Len(o.frames) * (mesh.divisions + 1) + SumPlaneCounts(o.subs, 2)
       /\ Len(o.mainGeom.parts) = total
       /\ \A k \in 1..Len(o.mainGeom.index) :
            o.mainGeom.index[k] >= 0 /\ o.mainGeom.index[k] < total

\* a fish with several frames and fins of different sizes has been merged
\* and its index buffer uses the last vertex
C8_Witness ==
  /\ mesh.stage = "built"
  /\ Len(mesh.out.frames) >= 4
  /\ Len(mesh.out.subs[3].position) # Len(mesh.out.subs[4].position)
  /\ \E k \in 1..Len(mesh.out.mainGeom.index) :
       mesh.out.mainGeom.index[k] = Len(mesh.out.mainGeom.position) - 1

\* C9: every frame of computeFrames, the all-zero first one and the tail
\* frame included, has the same number of points
C9_FramesSameSize ==
  mesh.stage = "built" =>
    \A i \in 1..Len(mesh.out.frames) : \A j \in 1..Len(mesh.out.frames) :
      Len(mesh.out.frames[i]) = Len(mesh.out.frames[j])

\* frames have been computed: the zero frame, loop frames and the tail frame
C9_Witness ==
  /\ mesh.stage = "built"
  /\ Len(mesh.out.frames) >= 3
  /\ mesh.out.frames[1][1].curve = <<"zero">>
  /\ Len(mesh.out.frames[Len(mesh.out.frames)]) = mesh.divisions + 1

C11_NoEditInsideTick ==
  [][(pc # "idle" \/ pc' # "idle") =>
       /\ Len(fishData') = Len(fishData)
       /\ Len(targets') = Len(targets)
       /\ DOMAIN targets' = DOMAIN fishData'
       /\ \A i \in 1..Len(fishData') : Len(targets'[i]) = 3]_vars

\* the population was changed in the GUI and a later tick is under way
C11_Witness ==
  /\ pc = "move"
  /\ edits = 1
  /\ ticks = MaxTicks
  /\ Len(fishData) = 1

\* C12: the agent list and the target list have the same length, which is
\* the count of the last updateFishCount call; every agent's target is a
\* point inside the motion bounds; only updateFishCount changes the length
C12_CountAndTargets ==
  /\ [](/\ Len(fishData) = Len(targets)
        /\ \A i \in 1..Len(fishData) : Len(targets[i]) = 3 /\ InBounds(targets[i])
        /\ lastOp.op = "updateFishCount" => Len(fishData) = lastOp.count)
  /\ [][lastOp'.op # "updateFishCount" => Len(fishData') = Len(fishData)]_vars

\* the population has shrunk and grown again, with ticks in between
C12_Witness ==
  /\ lastOp.op = "updateFishCount"
  /\ edits >= 2
  /\ ticks >= 1
  /\ lastOp.count = MaxFish
  /\ Len(fishData) = MaxFish

\* C13: point 0 of every chain is at the chain's base anchor with zero
\* velocity, in the initial state and after the kelp step of every tick
C13_BasePinned ==
  \A n \in 1..Len(seaPlants) :
    /\ seaPlants[n].points[1] = seaPlants[n].base
    /\ seaPlants[n].velocities[1] = Zero3

\* the kelp step has just run with a fish pushing the chain sideways
C13_Witness ==
  /\ lastOp.op = "chain"
  /\ \E n \in 1..Len(seaPlants) : \E k \in 2..SEGMENTS :
       /\ seaPlants[n].velocities[k] # Zero3
       /\ seaPlants[n].points[k][1] # seaPlants[n].base[1]

\* C14: every fish position the kelp step of a tick reads is the position
\* that fish has after loop 2 of the same tick has moved all the fish
C14_ChainReadsMovedFish ==
  lastOp.op = "chain" =>
    lastOp.read = [i \in 1..Len(fishData) |-> fishData[i].pos]

\* the kelp step has run in a tick that moved every fish
C14_Witness ==
  /\ lastOp.op = "chain"
  /\ Len(fishData) = MaxFish
  /\ \A i \in 1..Len(fishData) : lastOp.read[i] # lastOp.premove[i]

\* C15: the spring term and the damping term of the kelp step use the
\* delta the tick read from the clock at its start
C15_ChainUsesTickDelta ==
  lastOp.op = "chain" => lastOp.dtS = delta /\ lastOp.dtD = delta

\* C16: disturbWater leaves every height unchanged; when the cell the
\* world point maps to is interior it adds strength to that cell's
\* velocity and changes no other velocity; when the cell is on the ring
\* or outside the grid it changes nothing
C16_DisturbChangesOneVelocity ==
  lastOp.op = "disturb" =>
    /\ waterHeights = lastOp.before.h
    /\ \A x \in GridX : \A z \in GridZ :
         waterVelocities[x][z] =
           IF x = lastOp.ix /\ z = lastOp.iz /\ Interior(x, z)
           THEN lastOp.before.v[x][z] + lastOp.strength
           ELSE lastOp.before.v[x][z]

\* disturbWater has just added to the velocity of a cell that was moving
C16_Witness ==
  /\ lastOp.op = "disturb"
  /\ lastOp.ix \in GridX /\ lastOp.iz \in GridZ
  /\ Interior(lastOp.ix, lastOp.iz)
  /\ lastOp.before.v[lastOp.ix][lastOp.iz] # 0
  /\ lastOp.before.h # ZeroGrid
  /\ waterVelocities # lastOp.before.v

Brackets(curvePoints, x) ==
  {i \in 1..(Len(curvePoints) - 1) : curvePoints[i][1] <= x /\ x <= curvePoints[i + 1][1]}

\* C17: a query x outside every bracket of the sampled curve gets no point
\* (undefined); a query inside some bracket gets the linear interpolation
\* between the first bracketing pair (to the resolution of the arithmetic)
C17_LookupOutsideIsUndefined ==
  mesh.stage = "answered" =>
    LET B == Brackets(mesh.curvePoints, mesh.x)
    IN IF B = {} THEN mesh.result = Undefined
       ELSE LET i == CHOOSE b \in B : \A c \in B : b <= c
                i1 == mesh.curvePoints[i]
                i2 == mesh.curvePoints[i + 1]
            IN /\ mesh.result.found
               /\ \A c \in 1..3 :
                    Abs((i2[1] - i1[1]) * (mesh.result.point[c] - i1[c])
                        - (mesh.x - i1[1]) * (i2[c] - i1[c]))
                      <= (i2[1] - i1[1]) * (Abs(i2[c] - i1[c]) \div U + 1)

\* a query past the last sample of a rising curve has been answered
C17_Witness ==
  /\ mesh.stage = "answered"
  /\ mesh.x > mesh.curvePoints[Len(mesh.curvePoints)][1]
  /\ mesh.curvePoints[1][2] # mesh.curvePoints[2][2]
  /\ mesh.result = Undefined

\* C18: loop 2 replaces the target of a fish by a freshly drawn point if
\* and only if the squared distance from the moved fish to its target is
\* below 0.25; every other target is left as it was
C18_RetargetIffArrived ==
  lastOp.op = "move" =>
    \A i \in 1..Len(fishData) :
      /\ (i \in lastOp.retargeted)
           <=> (LenSq(VSub(fishData[i].pos, lastOp.targetsBefore[i])) < arriveDistSq)
      /\ (i \in lastOp.retargeted) => targets[i] = lastOp.fresh[i] /\ targets[i] \in Targets
      /\ (i \notin lastOp.retargeted) => targets[i] = lastOp.targetsBefore[i]

\* loop 2 has given one fish a new target and left the other fish's alone
C18_Witness ==
  /\ lastOp.op = "move"
  /\ Len(fishData) = 2
  /\ lastOp.retargeted = {1}
  /\ targets[1] # lastOp.targetsBefore[1]
  /\ targets[2] = lastOp.targetsBefore[2]

SameSigns(a, b) ==
  \A c \in 1..3 : (a[c] > 0 /\ b[c] > 0) \/ (a[c] < 0 /\ b[c] < 0) \/ (a[c] = 0 /\ b[c] = 0)

\* the acceleration fish i must have got from fish j
SepContribution(i, j) ==
  LET offset == VSub(fishData[i].pos, fishData[j].pos)
      d == VLen(offset)
      expected == RDiv(separationStrength * (separationDist - d), fishData[i].mass)
  IN /\ (d > 0 /\ d < separationDist) =>
          /\ Abs(VLen(fishData[i].acc) - expected) <= Tol
          /\ SameSigns(fishData[i].acc, offset)
     /\ d >= separationDist => fishData[i].acc = Zero3

\* two fish of mass m at offset off
PairAt(off, m) ==
  <<[pos |-> off, vel |-> Zero3, acc |-> Zero3, mass |-> m, quat |-> IdentityQuat,
      envMap |-> NullMap],
    [pos |-> Zero3, vel |-> Zero3, acc |-> Zero3, mass |-> m, quat |-> IdentityQuat,
      envMap |-> NullMap]>>

\* C19: after the force phase of the loop with separation only, each of
\* two fish at distance d, 0 < d < separationDist, has an acceleration of
\* magnitude separationStrength * (separationDist - d) / mass pointing away
\* from the other; at d >= separationDist it has none; a closer pair gets
\* a strictly larger contribution
C19_SpringSeparation ==
  (pc = "move" /\ ~flocking) =>
    /\ SepContribution(1, 2)
    /\ SepContribution(2, 1)
    /\ \A o1 \in SepOffsets, o2 \in SepOffsets :
         (0 < VLen(o1) /\ VLen(o1) < VLen(o2) /\ VLen(o2) < separationDist) =>
           VLen(SepForce(PairAt(o1, fishData[1].mass), 1, 2))
             > VLen(SepForce(PairAt(o2, fishData[1].mass), 1, 2))

\* the force phase has pushed two close fish of different mass apart
C19_Witness ==
  /\ pc = "move" /\ ~flocking
  /\ VLen(VSub(fishData[1].pos, fishData[2].pos)) = 500
  /\ fishData[1].mass # fishData[2].mass
  /\ fishData[1].acc # Zero3 /\ fishData[2].acc # Zero3

\* C20: after the force phase a fish with no other fish within
\* separationDist (and, in the loop with alignment and cohesion, none
\* within flockRadius) has acceleration zero, whatever acceleration it
\* had when the tick started
C20_AccelerationReset ==
  pc = "move" =>
    \A i \in 1..Len(fishData) :
      (\A j \in 1..Len(fishData) :
         j # i => /\ VLen(VSub(fishData[i].pos, fishData[j].pos)) >= separationDist
                  /\ VLen(VSub(fishData[i].pos, fishData[j].pos)) >= flockRadius)
        => fishData[i].acc = Zero3

\* the force phase has zeroed the acceleration a lone fish carried over
C20_Witness ==
  /\ lastOp.op = "forces"
  /\ flocking
  /\ VLen(VSub(fishData[1].pos, fishData[2].pos)) >= flockRadius
  /\ lastOp.accBefore[1] # Zero3
  /\ fishData[1].acc = Zero3

IsVector(v) == Len(v) = 3 /\ \A c \in 1..3 : v[c] \in Int

\* C21: a fish whose only companions sit exactly on its position gets no
\* separation and no cohesion contribution from them: after the force
\* phase its acceleration is the alignment term alone; acceleration,
\* velocity and position of every fish are numbers in every state
C21_CoincidentFishGuarded ==
  /\ \A i \in 1..Len(fishData) :
       IsVector(fishData[i].acc) /\ IsVector(fishData[i].vel) /\ IsVector(fishData[i].pos)
  /\ pc = "move" =>
       \A i \in 1..Len(fishData) :
         (Len(fishData) >= 2 /\ \A j \in 1..Len(fishData) : fishData[j].pos = fishData[i].pos)
           => fishData[i].acc =
                VScale(VSub(Normalize(VDivInt(SumField(fishData, (1..Len(fishData)) \ {i}, 1, TRUE),
                                              Len(fishData) - 1)),
                            Normalize(fishData[i].vel)),
                       alignmentStrength)

\* the force phase has run for fish that sit on one point and head in
\* different directions
C21_Witness ==
  /\ pc = "move"
  /\ Len(fishData) >= 2
  /\ fishData[1].pos = fishData[2].pos
  /\ fishData[1].vel # fishData[2].vel
  /\ fishData[1].acc # Zero3

Overshoots(b) ==
  /\ b.blended # b.des
  /\ VSub(b.blended, b.des) = VScale(VSub(b.des, b.cur), b.t - U)

\* C22 as stated: in a tick with turnSpeed * delta > 1 the blended vector
\* of every fish lies beyond the desired direction, on the line from the
\* current direction through it
C22_AlwaysOvershoots ==
  (lastOp.op = "move" /\ turnSpeed * delta > U * U) =>
    \A i \in 1..Len(fishData) : Overshoots(lastOp.blend[i])

\* C22 amended: the factor is not clamped; with turnSpeed * delta > 1 the
\* blended vector lies beyond the desired direction when the current
\* direction differs from it, and equals it when the two are the same
C22_OvershootsUnlessAligned ==
  (lastOp.op = "move" /\ turnSpeed * delta > U * U) =>
    \A i \in 1..Len(fishData) :
      LET b == lastOp.blend[i]
      IN /\ b.t = RDiv(turnSpeed * delta, U) /\ b.t > U
         /\ b.cur # b.des => Overshoots(b)
         /\ b.cur = b.des => b.blended = b.des

\* a slow frame has blended the direction of a fish past its target direction
C22_Witness ==
  /\ lastOp.op = "move"
  /\ delta = 5000
  /\ lastOp.blend[1].cur # lastOp.blend[1].des
  /\ Overshoots(lastOp.blend[1])

SpeedTol == 10

\* C23: at the end of every tick the speed of every fish is fishSpeed (to
\* the resolution of the arithmetic), whatever it was pushed by and
\* whether or not it bounced
C23_CruiseSpeed ==
  (pc = "idle" /\ ticks > 0) =>
    \A i \in 1..Len(fishData) : Abs(VLen(fishData[i].vel) - fishSpeed) <= SpeedTol

Physics(f) == [pos |-> f.pos, vel |-> f.vel, acc |-> f.acc, mass |-> f.mass]

Unrotated(fd) == [k \in 1..Len(fd) |-> [fd[k] EXCEPT !.quat = IdentityQuat]]

\* C24: the two loops of a tick give every fish the position, velocity,
\* acceleration and target they give the same fish with its mesh not
\* rotated, under the same random draws: the quaternion is written by the
\* tick and never read by it
C24_FacingNotReadByPhysics ==
  [][(pc = "forces" =>
        \A i \in 1..Len(fishData) :
          Physics(fishData'[i]) =
            Physics(ForcePhase(Unrotated(fishData), flocking)[i]))
     /\ (pc = "move" =>
          \A j \in 1..Len(fishData) :
            LET r == MoveFish(Unrotated(fishData)[j], targets[j], delta,
                              lastOp'.turn[j], lastOp'.fresh[j])
            IN /\ Physics(fishData'[j]) = Physics(r.fish)
               /\ targets'[j] = r.target)]_vars

\* a tick has moved two fish whose meshes were rotated differently when
\* the tick started
C24_Witness ==
  /\ lastOp.op = "move"
  /\ ticks >= 2
  /\ Len(fishData) = 2
  /\ fishData[1].quat # IdentityQuat
  /\ fishData[1].quat # fishData[2].quat

HalfExtents == <<halfX, halfY, halfZ>>

\* the axes on which the point p is beyond the motion bounds
AxesOut(p) == {c \in 1..3 : p[c] > HalfExtents[c] \/ p[c] < -HalfExtents[c]}

\* C25: in loop 2, with v the steered velocity and p the position after
\* the move: on every axis where p is beyond the half extent the
\* coordinate becomes the boundary on that side and the component of v is
\* negated; on every other axis the coordinate stays p's and the
\* component stays v's; the velocity of the tick is that reflected
\* velocity when no axis is out, and otherwise the reflected velocity
\* turned about a random axis by an angle of magnitude at most pi / 8
C25_PerAxisBounce ==
  [][pc = "move" =>
       \A i \in 1..Len(fishData) :
         LET v == Steer(fishData[i], targets[i], delta)
             p == VAdd(fishData[i].pos, VScale(v, delta))
             out == AxesOut(p)
             reflected == <<IF 1 \in out THEN -v[1] ELSE v[1],
                            IF 2 \in out THEN -v[2] ELSE v[2],
                            IF 3 \in out THEN -v[3] ELSE v[3]>>
             turn == lastOp'.turn[i]
         IN /\ \A c \in out :
                 fishData'[i].pos[c] =
                   IF p[c] > HalfExtents[c] THEN HalfExtents[c] ELSE -HalfExtents[c]
            /\ \A c \in (1..3) \ out : fishData'[i].pos[c] = p[c]
            /\ (i \in lastOp'.bounced) = (out # {})
            /\ out = {} => fishData'[i].vel = reflected
            /\ out # {} =>
                 /\ turn[2] >= cosPi8
                 /\ fishData'[i].vel =
                      ApplyAxisAngle(reflected, turn[1], turn[2], turn[3])]_vars

\* a tick has moved a fish that bounced on one axis and stayed within
\* the bounds on another
C25_Witness ==
  /\ lastOp.op = "move"
  /\ \E i \in lastOp.bounced :
       /\ \E c \in 1..3 : Abs(fishData[i].pos[c]) = HalfExtents[c]
       /\ \E c \in 1..3 : Abs(fishData[i].pos[c]) < HalfExtents[c]
       /\ lastOp.turn[i] \in Turns

\* the explicit step: every interior cell takes its Laplacian from the
\* heights g had when the step started
ExplicitStep(g, dt) ==
  LET lap(x, z) == RDiv(g.h[x - 1][z] + g.h[x + 1][z] + g.h[x][z - 1] + g.h[x][z + 1], 4)
                   - g.h[x][z]
      vel(x, z) == RDiv((g.v[x][z] + RDiv(RDiv(lap(x, z) * WAVE_SPEED, U) * dt, 1000))
                        * DAMPING, U)
  IN [h |-> [x \in GridX |-> [z \in GridZ |->
               IF Interior(x, z)
               THEN g.h[x][z] + RDiv(vel(x, z) * dt, 1000) ELSE g.h[x][z]]],
      v |-> [x \in GridX |-> [z \in GridZ |->
               IF Interior(x, z) THEN vel(x, z) ELSE g.v[x][z]]]]

\* C26: a call of updateWaterPhysics leaves the heights and velocities
\* the explicit step gives from the grid the call started with
C26_EqualsExplicitStep ==
  lastOp.op = "update" =>
    [h |-> waterHeights, v |-> waterVelocities] = ExplicitStep(lastOp.before, lastOp.delta)

\* the vertex was pushed by the loop over the body frames
FromBodyFrame(v) == v.curve[1] \in {"zero", "frame"}

\* C27: in every sub-mesh createFishGeometry builds, the parts attribute
\* has one tag per vertex, as many as the plane has vertices; the tag is 0
\* on every vertex of the body frames and 1 on every vertex of the tail
\* fin and of the fins createFin builds; the merged mesh has one tag, 0
\* or 1, per vertex
C27_PartTags ==
  mesh.stage = "built" =>
    LET subs == mesh.out.subs
        main == mesh.out.mainGeom
    IN /\ \A n \in 1..Len(subs) :
            /\ Len(subs[n].parts) = Len(subs[n].position)
            /\ Len(subs[n].parts) = subs[n].planeCount
            /\ \A k \in 1..Len(subs[n].position) :
                 /\ FromBodyFrame(subs[n].position[k]) = (n = 1)
                 /\ subs[n].parts[k] = IF n = 1 THEN 0 ELSE 1
       /\ Len(main.parts) = Len(main.position)
       /\ \A k \in 1..Len(main.position) :
            main.parts[k] = IF FromBodyFrame(main.position[k]) THEN 0 ELSE 1

\* a mesh is built with four segments around a frame and fins of
\* different sizes
C27_Witness ==
  /\ mesh.stage = "built"
  /\ mesh.divisions = 4
  /\ Len(mesh.out.subs) = 6
  /\ Len(mesh.out.subs[2].parts) = 5 * (tailfinSlices + 1)
  /\ Len(mesh.out.subs[3].parts) # Len(mesh.out.subs[4].parts)
  /\ \E k \in 1..Len(mesh.out.mainGeom.parts) : mesh.out.mainGeom.parts[k] = 0
  /\ \E k \in 1..Len(mesh.out.mainGeom.parts) : mesh.out.mainGeom.parts[k] = 1

\* C28: updateFishCount(count) leaves count fish and count targets, and
\* every fish below both the old and the new count keeps its record
\* (position, velocity, acceleration, mass) and its target: fish and
\* targets are removed and added at the end of the lists only
C28_SurvivorsUnchanged ==
  [][edits' = edits + 1 =>
       LET n == Len(fishData)
           count == lastOp'.count
           kept == IF n < count THEN n ELSE count
       IN /\ Len(fishData') = count
          /\ Len(targets') = count
          /\ \A i \in 1..kept :
               /\ fishData'[i] = fishData[i]
               /\ targets'[i] = targets[i]]_vars

\* the population has shrunk to one fish, which swam before the call and
\* is still where it was
C28_Witness ==
  /\ lastOp.op = "updateFishCount"
  /\ lastOp.count = 1
  /\ ticks >= 1
  /\ Len(fishData) = 1
  /\ fishData[1].pos # Zero3

\* C29: once the load callback has run, the envMap uniform of every fish
\* of the population is the loaded environment map
C29_EveryFishHasEnvMap ==
  sceneEnvironment = HdrMap =>
    \A i \in 1..Len(fishData) : fishData[i].envMap = HdrMap

\* C30: no fish is ever within 0.5 of the height of the sand mesh, the
\* loop over the fish at the end of a tick calls deformSandAt for none of
\* them, and every sand vertex has its original height
C30_SandNeverDeformed ==
  /\ \A i \in 1..Len(fishData) : ~NearSand(fishData[i].pos)
  /\ lastOp.op = "sand" => lastOp.deformed = {}
  /\ sandVertexY = sandOrigY

\* a tick has run its sand loop with a fish on the floor of the motion
\* bounds, right above a sand vertex
C30_Witness ==
  /\ lastOp.op = "sand"
  /\ \E i \in 1..Len(fishData) :
       /\ fishData[i].pos[2] = -halfY
       /\ \E k \in 1..Len(SandVertices) :
            /\ Abs(fishData[i].pos[1] - SandVertices[k][1]) < deformRadius
            /\ Abs(fishData[i].pos[3] - SandVertices[k][2]) < deformRadius

====
